---- MODULE Spec2Model ----
(***************************************************************************)
(* A model of the Asteroids game of asteroids.py / shapes.py / config.py.  *)
(*                                                                         *)
(* Lengths are counted in units of SHIP_ACCELERATION_RATE (half a pixel),  *)
(* so every position and velocity of the model is an integer.  Angles are  *)
(* whole degrees.  A colour is a triple of channels.                       *)
(*                                                                         *)
(* What the code decides from floating-point geometry (Shape.intersects,   *)
(* the random shape, heading and speed of an asteroid, the path of a       *)
(* bullet across the screen) is an input of the step that uses it, drawn   *)
(* from a small set.                                                       *)
(***************************************************************************)
EXTENDS Integers, Sequences, FiniteSets

(***************************************************************************)
(* config.py.  shapes.py and asteroids.py read SHIP_INITIAL_ROTATION and    *)
(* UPGRADE_REQ, which config.py spells SHIP_INITIAL_DIRECTION and           *)
(* UPGRADE_REQUIREMENT.  Radii are in pixels.                               *)
(*                                                                         *)
(* The two delays are counted in game cycles; config.py sets both to 50.   *)
(* The model runs the game configured with shorter delays: every statement *)
(* below is made in terms of RESPAWN_DELAY and VULNERABILITY_DELAY, not of *)
(* their values.                                                           *)
(***************************************************************************)
SHIP_INITIAL_ROTATION == -90
SHIP_ACCELERATION_RATE == 1
SHIP_ROTATION_RATE == 10
SHIP_COLOR == <<140, 140, 255>>
ASTEROID_MIN_RADIUS == 10
ASTEROID_MAX_RADIUS == 40
UPGRADE_REQ == 5
MAX_UPGRADE_LEVEL == 7
RESPAWN_DELAY == 2
VULNERABILITY_DELAY == 2

\* The screen, self.width by self.height (SCREEN_WIDTH, SCREEN_HEIGHT): the
\* model plays on a screen of one pixel, two length units, each way.
Width == 2
Height == 2

(***************************************************************************)
(* Bounds of the model.                                                    *)
(***************************************************************************)
\* No asteroid is hit while the ship's kill counter is at MaxKills.
MaxKills == 10
\* No upgrade is dropped while MaxUpgrades of them lie on the screen.
MaxUpgrades == 1
\* The fire key is not pressed when more than MaxBullets bullets would fly.
MaxBullets == 1
\* The player does not thrust beyond MaxSpeed on either axis.
MaxSpeed == 1
\* In the ship's own specification no upgrade is taken at level MaxLevel.
MaxLevel == 9

(***************************************************************************)
(* Inputs.                                                                 *)
(***************************************************************************)
\* The keys held down in a tick, one key of each role Ship.game_logic reads:
\* in the game, and in the ship's own specification.
GameKeyChoices == {{}, {"K_LEFT"}}
ShipKeyChoices == {{}, {"K_UP"}, {"K_DOWN"}, {"K_LEFT"}, {"K_RIGHT"}}
\* The keys newly pressed in a tick.
NewKeyChoices == {{}, {"K_SPACE"}}
\* The headings the player steers through.
Headings == {SHIP_INITIAL_ROTATION, 260, 270}
\* Outcomes of Shape.set_random_color.
RandomColors == {SHIP_COLOR, <<255, 0, 0>>}
\* Outcomes of an asteroid's random heading and speed: its velocity, here
\* one pixel (two length units) per tick along the x axis.
AsteroidVelocities == {<<2, 0>>}
\* The moves after which a new bullet is outside the screen.
BulletRanges == {1, 2}

Abs(a) == IF a < 0 THEN -a ELSE a
RemoveAt(s, k) == [j \in 1..(Len(s) - 1) |-> IF j < k THEN s[j] ELSE s[j + 1]]

(***************************************************************************)
(* shapes.py: Shape                                                        *)
(***************************************************************************)
\* math.cos / math.sin of a heading that is a multiple of 90 degrees.
Cos(r) == CASE r % 360 = 0 -> 1 [] r % 360 = 180 -> -1 [] OTHER -> 0
Sin(r) == CASE r % 360 = 90 -> 1 [] r % 360 = 270 -> -1 [] OTHER -> 0

move(s) ==
    [s EXCEPT !.position = <<s.position[1] + s.dx, s.position[2] + s.dy>>]

boundary_check(s, screen_width, screen_height) ==
    LET x == s.position[1]
        y == s.position[2]
        nx == IF x >= screen_width THEN 0
              ELSE IF x < 0 THEN screen_width - 1 ELSE x
        ny == IF y >= screen_height THEN 0
              ELSE IF y < 0 THEN screen_height ELSE y
    IN  [s EXCEPT !.position = <<nx, ny>>]

\* A rotate that stops at the ends of the range instead of wrapping.
rotateClamping(s, degrees) ==
    LET r == s.rotation + degrees
    IN  [s EXCEPT !.rotation = IF r < 0 THEN 0
                               ELSE IF r >= 360 THEN 359 ELSE r]

rotate(s, degrees) ==
    LET r == s.rotation + degrees
    IN  [s EXCEPT !.rotation = IF r < 0 THEN r + 360
                               ELSE IF r >= 360 THEN r - 360 ELSE r]

accelerate(s, acceleration) ==
    [s EXCEPT !.dx = s.dx + acceleration * Cos(s.rotation),
              !.dy = s.dy + acceleration * Sin(s.rotation)]

(***************************************************************************)
(* shapes.py: Ship                                                         *)
(***************************************************************************)
\* The screen centre, where AsteroidsGame.__init__ places the ship.
Center == <<Width \div 2, Height \div 2>>

ShipInit ==
    [active |-> TRUE, position |-> Center, rotation |-> SHIP_INITIAL_ROTATION,
     color |-> SHIP_COLOR, dx |-> 0, dy |-> 0, starting_point |-> Center,
     asteroids_destroyed |-> 0, upgrade_level |-> 0, shielded |-> FALSE,
     invincibility_timer |-> 0, respawn_timer |-> 0]

\* A respawn that comes one call early.
RespawnEarly(s) ==
    IF s.respawn_timer > 0
    THEN IF s.respawn_timer - 1 <= 1
         THEN [s EXCEPT !.respawn_timer = s.respawn_timer - 1,
                        !.invincibility_timer = VULNERABILITY_DELAY,
                        !.active = TRUE]
         ELSE [s EXCEPT !.respawn_timer = s.respawn_timer - 1]
    ELSE s

\* Ship.game_logic of an inactive ship (lines 211-217).
ShipRespawn(s) ==
    IF s.respawn_timer > 0
    THEN IF s.respawn_timer - 1 <= 0
         THEN [s EXCEPT !.respawn_timer = s.respawn_timer - 1,
                        !.invincibility_timer = VULNERABILITY_DELAY,
                        !.active = TRUE]
         ELSE [s EXCEPT !.respawn_timer = s.respawn_timer - 1]
    ELSE s

\* Ship.game_logic; c is the colour set_random_color draws.
ShipGameLogic(s, k, c) ==
    IF ~s.active
    THEN ShipRespawn(s)
    ELSE LET s1 == IF s.invincibility_timer > 0
                   THEN [s EXCEPT !.invincibility_timer = @ - 1] ELSE s
             s2 == IF "K_UP" \in k
                   THEN accelerate(s1, SHIP_ACCELERATION_RATE) ELSE s1
             s3 == IF "K_DOWN" \in k
                   THEN accelerate(s2, SHIP_ACCELERATION_RATE * (-1)) ELSE s2
             s4 == IF "K_LEFT" \in k
                   THEN rotate(s3, SHIP_ROTATION_RATE * (-1)) ELSE s3
             s5 == IF "K_RIGHT" \in k
                   THEN rotate(s4, SHIP_ROTATION_RATE) ELSE s4
             s6 == IF s5.shielded THEN [s5 EXCEPT !.color = c] ELSE s5
         IN  move(s6)

\* An upgrade that raises the shield one level late.
UpgradeShieldingLate(s) ==
    LET l == s.upgrade_level + 1
    IN  IF l > MAX_UPGRADE_LEVEL
        THEN [s EXCEPT !.upgrade_level = l, !.shielded = TRUE]
        ELSE [s EXCEPT !.upgrade_level = l]

\* Ship.upgrade
ShipUpgrade(s) ==
    LET l == s.upgrade_level + 1
    IN  IF l >= MAX_UPGRADE_LEVEL
        THEN [s EXCEPT !.upgrade_level = l, !.shielded = TRUE]
        ELSE [s EXCEPT !.upgrade_level = l]

\* The shield's branch and the fatal branch of take_damage.
ShieldLost(s) ==
    [s EXCEPT !.shielded = FALSE, !.color = SHIP_COLOR,
              !.invincibility_timer = VULNERABILITY_DELAY]
ShipLost(s) ==
    [s EXCEPT !.active = FALSE, !.asteroids_destroyed = 0,
              !.upgrade_level = 0, !.position = s.starting_point,
              !.rotation = SHIP_INITIAL_ROTATION,
              !.dx = 0, !.dy = 0, !.respawn_timer = RESPAWN_DELAY]

\* A take_damage that does not look at the invincibility timer.
TakeDamageThroughTimer(s) ==
    IF s.shielded THEN ShieldLost(s) ELSE ShipLost(s)

\* A take_damage whose shield absorbs the hit and stays up.
TakeDamageKeepingShield(s) ==
    IF s.invincibility_timer > 0
    THEN s
    ELSE IF s.shielded
         THEN [s EXCEPT !.invincibility_timer = VULNERABILITY_DELAY]
         ELSE ShipLost(s)

\* A take_damage whose fatal branch leaves the ship drifting.
TakeDamageKeepingVelocity(s) ==
    IF s.invincibility_timer > 0
    THEN s
    ELSE IF s.shielded
         THEN ShieldLost(s)
         ELSE [ShipLost(s) EXCEPT !.dx = s.dx, !.dy = s.dy]

\* A take_damage whose fatal branch is taken by a shielded ship as well.
TakeDamageIgnoringShield(s) ==
    IF s.invincibility_timer > 0 THEN s ELSE ShipLost(s)

\* Ship.take_damage
ShipTakeDamage(s) ==
    IF s.invincibility_timer > 0
    THEN s
    ELSE IF s.shielded THEN ShieldLost(s) ELSE ShipLost(s)

(***************************************************************************)
(* shapes.py: Asteroid, Bullet, Upgrade                                    *)
(***************************************************************************)
\* Asteroid.__init__; v is the velocity its random heading and speed give.
Asteroid(average_radius, spawn_point, v) ==
    [active |-> TRUE, average_radius |-> average_radius,
     position |-> spawn_point, dx |-> v[1], dy |-> v[2]]

\* Bullet.__init__, fired from vertex point of the ship's outline.  The
\* bullet flies straight at BULLET_SPEED: range is the number of moves after
\* which its position is outside the screen.
Bullet(point, rotation, range) ==
    [point |-> point, rotation |-> rotation, range |-> range]

\* Bullet.game_logic: one move along its path.
BulletGameLogic(b) == [b EXCEPT !.range = @ - 1]

\* The test of asteroids.py lines 109-110: the bullet is outside the screen.
OffScreen(b) == b.range <= 0

\* Upgrade.__init__
Upgrade(position) == [position |-> position]

(***************************************************************************)
(* asteroids.py: AsteroidsGame                                             *)
(***************************************************************************)
VARIABLES
    ship,                    \* self.ship
    asteroids,               \* self.asteroids
    asteroid_count,          \* self.asteroid_count
    asteroid_respawn_timer,  \* self.asteroid_respawn_timer
    bullets,                 \* self.bullets
    upgrades,                \* self.upgrades
    keys,                    \* game_logic's argument keys
    new_keys,                \* game_logic's argument new_keys
    pc,                      \* the statement that runs next
    idx,                     \* the position of the running for loop
    \* History, read by no action:
    old_ship,                \* the ship as take_damage found it, until
                             \* destroy_asteroid has run; else None
    since_damage,            \* Ship.game_logic calls since fatal damage
    wave_tick,               \* ticks begun since the tick that cleared the wave
    \* Outside the game:
    probe                    \* the object and the arguments of one call, in
                             \* the specifications of single methods

vars == <<ship, asteroids, asteroid_count, asteroid_respawn_timer, bullets,
          upgrades, keys, new_keys, pc, idx, old_ship, since_damage,
          wave_tick, probe>>

None == [none |-> TRUE]

\* int(self.width * ASTEROID_DENSITY), the asteroids of a wave: one, on the
\* model's screen.
WaveSize == 1

\* get_random_point: int(random.uniform(0, n - 1)) on each axis.
RandomPoints == (0..(Width - 1)) \X (0..(Height - 1))

\* A fire event whose forward shot does not depend on the level.
FireShotsForwardAlways(s) ==
    <<<<0, s.rotation>>>>
    \o (IF s.upgrade_level > 0
        THEN <<<<3, s.rotation>>, <<9, s.rotation>>>> ELSE <<>>)
    \o (IF s.upgrade_level > 2
        THEN <<<<3, s.rotation + 45>>, <<9, s.rotation - 45>>>> ELSE <<>>)
    \o (IF s.upgrade_level > 3
        THEN <<<<3, s.rotation + 90>>, <<9, s.rotation - 90>>>> ELSE <<>>)
    \o (IF s.upgrade_level > 4
        THEN <<<<4, s.rotation + 135>>, <<8, s.rotation - 135>>>> ELSE <<>>)
    \o (IF s.upgrade_level > 5
        THEN <<<<6, s.rotation + 180>>>> ELSE <<>>)

\* The bullets one fire event appends (lines 81-106), in order, as
\* <<vertex of the ship's outline, heading>>.
FireShots(s) ==
    (IF s.upgrade_level /= 1 THEN <<<<0, s.rotation>>>> ELSE <<>>)
    \o (IF s.upgrade_level > 0
        THEN <<<<3, s.rotation>>, <<9, s.rotation>>>> ELSE <<>>)
    \o (IF s.upgrade_level > 2
        THEN <<<<3, s.rotation + 45>>, <<9, s.rotation - 45>>>> ELSE <<>>)
    \o (IF s.upgrade_level > 3
        THEN <<<<3, s.rotation + 90>>, <<9, s.rotation - 90>>>> ELSE <<>>)
    \o (IF s.upgrade_level > 4
        THEN <<<<4, s.rotation + 135>>, <<8, s.rotation - 135>>>> ELSE <<>>)
    \o (IF s.upgrade_level > 5
        THEN <<<<6, s.rotation + 180>>>> ELSE <<>>)

\* The keys of lines 78-80.
FireKeys == {"K_SPACE", "K_RETURN", "K_KP_ENTER", "K_LCTRL", "K_RCTRL"}

\* The asteroids spawn_asteroids creates (lines 181-183).
NewWave(pts, vs) ==
    [j \in 1..WaveSize |-> Asteroid(ASTEROID_MAX_RADIUS, pts[j], vs[j])]

\* The state __init__ leaves (lines 37-54).
GameInit ==
    /\ ship = [ShipInit EXCEPT !.invincibility_timer = VULNERABILITY_DELAY]
    /\ \E pts \in [1..WaveSize -> RandomPoints],
          vs \in [1..WaveSize -> AsteroidVelocities] :
          asteroids = NewWave(pts, vs)
    /\ asteroid_count = WaveSize
    /\ asteroid_respawn_timer = 0
    /\ bullets = <<>>
    /\ upgrades = <<>>
    /\ keys = {}
    /\ new_keys = {}
    /\ pc = "ship"
    /\ idx = 1
    /\ old_ship = None
    /\ since_damage = 0
    /\ wave_tick = 0

Init == GameInit /\ probe = None

\* The keys the player may hold: thrust only on a heading whose cosine and
\* sine the model has, up to MaxSpeed, and turns within Headings.
KeysAllowed(k) ==
    LET s == ShipGameLogic(ship, k, SHIP_COLOR)
    IN  /\ (k \cap {"K_UP", "K_DOWN"} /= {}) => ship.rotation % 90 = 0
        /\ Abs(s.dx) <= MaxSpeed /\ Abs(s.dy) <= MaxSpeed
        /\ s.rotation \in Headings

\* Lines 74-75: the ship's own logic, then its boundary check.
ShipTick(k, c) ==
    /\ ship' = boundary_check(ShipGameLogic(ship, k, c), Width, Height)
    /\ since_damage' = IF ship.active THEN 0 ELSE since_damage + 1

ShipPhase ==
    /\ pc = "ship"
    /\ \E k \in GameKeyChoices, nk \in NewKeyChoices, c \in RandomColors :
          /\ KeysAllowed(k)
          /\ (nk \cap FireKeys /= {}) =>
                Len(bullets) + Len(FireShots(ship)) <= MaxBullets
          /\ ShipTick(k, c)
          /\ keys' = k
          /\ new_keys' = nk
    /\ pc' = "fire"
    /\ wave_tick' = IF asteroid_count <= 0 THEN wave_tick + 1 ELSE 0
    /\ UNCHANGED <<asteroids, asteroid_count, asteroid_respawn_timer, bullets,
                   upgrades, idx, old_ship>>
    /\ UNCHANGED probe

\* A fire phase that fires on a held key as on a newly pressed one.
FirePhaseOnHeldKey ==
    /\ pc = "fire"
    /\ IF (keys \cup new_keys) \cap FireKeys /= {} /\ ship.active
       THEN LET shots == FireShots(ship)
            IN  \E rg \in [1..Len(shots) -> BulletRanges] :
                   bullets' = bullets \o
                       [j \in 1..Len(shots) |->
                           Bullet(shots[j][1], shots[j][2], rg[j])]
       ELSE bullets' = bullets
    /\ pc' = "bullets"
    /\ idx' = 1
    /\ UNCHANGED <<ship, asteroids, asteroid_count, asteroid_respawn_timer,
                   upgrades, keys, new_keys, old_ship, since_damage,
                   wave_tick>>
    /\ UNCHANGED probe

\* Lines 78-106: a fire event appends the bullets of the upgrade level.  No
\* later line of game_logic reads keys or new_keys: the loop over the bullets
\* hands them on to Bullet.game_logic, which ignores them, and the model
\* forgets them there.
FirePhase ==
    /\ pc = "fire"
    /\ IF new_keys \cap FireKeys /= {} /\ ship.active
       THEN LET shots == FireShots(ship)
            IN  \E rg \in [1..Len(shots) -> BulletRanges] :
                   bullets' = bullets \o
                       [j \in 1..Len(shots) |->
                           Bullet(shots[j][1], shots[j][2], rg[j])]
       ELSE bullets' = bullets
    /\ pc' = "bullets"
    /\ idx' = 1
    /\ UNCHANGED <<ship, asteroids, asteroid_count, asteroid_respawn_timer,
                   upgrades, keys, new_keys, old_ship, since_damage,
                   wave_tick>>
    /\ UNCHANGED probe

\* Lines 107-111, one pass of the loop: the list iterator is at idx.
BulletStep ==
    /\ pc = "bullets"
    /\ idx <= Len(bullets)
    /\ LET b == BulletGameLogic(bullets[idx])
       IN  bullets' = IF OffScreen(b) THEN RemoveAt(bullets, idx)
                      ELSE [bullets EXCEPT ![idx] = b]
    /\ idx' = idx + 1
    /\ keys' = {}
    /\ new_keys' = {}
    /\ UNCHANGED <<ship, asteroids, asteroid_count, asteroid_respawn_timer,
                   upgrades, pc, old_ship, since_damage, wave_tick>>
    /\ UNCHANGED probe

\* The loop over self.bullets is exhausted.
BulletsDone ==
    /\ pc = "bullets"
    /\ idx > Len(bullets)
    /\ pc' = "upgrades"
    /\ idx' = 1
    /\ keys' = {}
    /\ new_keys' = {}
    /\ UNCHANGED <<ship, asteroids, asteroid_count, asteroid_respawn_timer,
                   bullets, upgrades, old_ship, since_damage, wave_tick>>
    /\ UNCHANGED probe

\* A pass of the loop in which a ship that is not active collects as well.
UpgradeStepWhileInactive ==
    /\ pc = "upgrades"
    /\ idx <= Len(upgrades)
    /\ \E hit \in BOOLEAN :
          IF hit
          THEN /\ ship' = ShipUpgrade(ship)
               /\ upgrades' = RemoveAt(upgrades, idx)
          ELSE UNCHANGED <<ship, upgrades>>
    /\ idx' = idx + 1
    /\ UNCHANGED <<asteroids, asteroid_count, asteroid_respawn_timer, bullets,
                   keys, new_keys, pc, old_ship, since_damage, wave_tick>>
    /\ UNCHANGED probe

\* Lines 114-118, one pass of the loop; hit is ship.intersects(u).
UpgradeStep ==
    /\ pc = "upgrades"
    /\ idx <= Len(upgrades)
    /\ \E hit \in BOOLEAN :
          IF ship.active /\ hit
          THEN /\ ship' = ShipUpgrade(ship)
               /\ upgrades' = RemoveAt(upgrades, idx)
          ELSE UNCHANGED <<ship, upgrades>>
    /\ idx' = idx + 1
    /\ UNCHANGED <<asteroids, asteroid_count, asteroid_respawn_timer, bullets,
                   keys, new_keys, pc, old_ship, since_damage, wave_tick>>
    /\ UNCHANGED probe

\* The loop over self.upgrades is exhausted.
UpgradesDone ==
    /\ pc = "upgrades"
    /\ idx > Len(upgrades)
    /\ pc' = "asteroids"
    /\ idx' = 1
    /\ UNCHANGED <<ship, asteroids, asteroid_count, asteroid_respawn_timer,
                   bullets, upgrades, keys, new_keys, old_ship, since_damage,
                   wave_tick>>
    /\ UNCHANGED probe

\* The end of game_logic (the stars' twinkle changes only the stars).
EndTick ==
    /\ pc' = "ship"
    /\ idx' = 1
    /\ UNCHANGED <<keys, new_keys, old_ship, since_damage>>
    /\ UNCHANGED probe

\* An asteroid may be hit only within the bounds on kills and upgrades.
MayDestroy ==
    /\ ship.asteroids_destroyed < MaxKills
    /\ (ship.asteroids_destroyed + 1) % UPGRADE_REQ = 0
          => Len(upgrades) < MaxUpgrades

\* Line 121: with asteroids left, the loop over self.asteroids starts.
AsteroidsBegin ==
    /\ pc = "asteroids"
    /\ asteroid_count > 0
    /\ pc' = "asteroid_loop"
    /\ UNCHANGED <<ship, asteroids, asteroid_count, asteroid_respawn_timer,
                   bullets, upgrades, keys, new_keys, idx, old_ship,
                   since_damage, wave_tick>>
    /\ UNCHANGED probe

\* A pass of the loop in which a collision with the ship also spends the
\* bullet that overlaps the asteroid.
AsteroidStepSpendingBullet ==
    /\ pc = "asteroid_loop"
    /\ idx <= Len(asteroids)
    /\ LET a == asteroids[idx]
           m == boundary_check(move(a), Width, Height)
       IN  IF ~a.active
           THEN /\ idx' = idx + 1
                /\ UNCHANGED <<asteroids, bullets, pc>>
           ELSE /\ asteroids' = [asteroids EXCEPT ![idx] = m]
                /\ \E hit \in BOOLEAN, shot \in 0..Len(bullets) :
                      /\ (hit \/ shot > 0) => MayDestroy
                      /\ IF ship.active /\ hit
                         THEN /\ pc' = "take_damage"
                              /\ bullets' = IF shot > 0
                                            THEN RemoveAt(bullets, shot)
                                            ELSE bullets
                              /\ UNCHANGED idx
                         ELSE IF shot > 0
                         THEN /\ bullets' = RemoveAt(bullets, shot)
                              /\ pc' = "destroy_asteroid"
                              /\ UNCHANGED idx
                         ELSE /\ idx' = idx + 1
                              /\ UNCHANGED <<bullets, pc>>
    /\ UNCHANGED <<ship, asteroid_count, asteroid_respawn_timer, upgrades,
                   keys, new_keys, old_ship, since_damage, wave_tick>>
    /\ UNCHANGED probe

\* Lines 122-134, one pass of the loop over self.asteroids.  hit is
\* ship.intersects(a); shot is the first bullet with b.intersects(a), or 0.
AsteroidStep ==
    /\ pc = "asteroid_loop"
    /\ idx <= Len(asteroids)
    /\ LET a == asteroids[idx]
           m == boundary_check(move(a), Width, Height)
       IN  IF ~a.active
           THEN /\ idx' = idx + 1
                /\ UNCHANGED <<asteroids, bullets, pc>>
           ELSE /\ asteroids' = [asteroids EXCEPT ![idx] = m]
                /\ \E hit \in BOOLEAN, shot \in 0..Len(bullets) :
                      /\ (hit \/ shot > 0) => MayDestroy
                      /\ IF ship.active /\ hit
                         THEN /\ pc' = "take_damage"
                              /\ UNCHANGED <<bullets, idx>>
                         ELSE IF shot > 0
                         THEN /\ bullets' = RemoveAt(bullets, shot)
                              /\ pc' = "destroy_asteroid"
                              /\ UNCHANGED idx
                         ELSE /\ idx' = idx + 1
                              /\ UNCHANGED <<bullets, pc>>
    /\ UNCHANGED <<ship, asteroid_count, asteroid_respawn_timer, upgrades,
                   keys, new_keys, old_ship, since_damage, wave_tick>>
    /\ UNCHANGED probe

\* Line 127: self.ship.take_damage()
TakeDamage ==
    /\ pc = "take_damage"
    /\ ship' = ShipTakeDamage(ship)
    /\ old_ship' = ship
    /\ since_damage' = IF ship'.active THEN since_damage ELSE 0
    /\ pc' = "destroy_asteroid"
    /\ UNCHANGED <<asteroids, asteroid_count, asteroid_respawn_timer, bullets,
                   upgrades, keys, new_keys, idx, wave_tick>>
    /\ UNCHANGED probe

\* A destroy_asteroid that leaves one half behind instead of two.
DestroyLeavingOneHalf(a, v1, v2) ==
    LET half_radius == asteroids[a].average_radius \div 2
        killed == ship.asteroids_destroyed + 1
        dead == [asteroids EXCEPT ![a].active = FALSE]
    IN  /\ ship' = [ship EXCEPT !.asteroids_destroyed = killed]
        /\ upgrades' = IF killed % UPGRADE_REQ = 0
                       THEN Append(upgrades, Upgrade(asteroids[a].position))
                       ELSE upgrades
        /\ IF half_radius >= ASTEROID_MIN_RADIUS
           THEN /\ asteroids' = dead \o
                      <<Asteroid(half_radius, asteroids[a].position, v1)>>
                /\ asteroid_count' = asteroid_count
                /\ UNCHANGED asteroid_respawn_timer
           ELSE /\ asteroids' = dead
                /\ asteroid_count' = asteroid_count - 1
                /\ asteroid_respawn_timer' =
                      IF asteroid_count - 1 <= 0 THEN RESPAWN_DELAY
                      ELSE asteroid_respawn_timer

\* A destroy_asteroid that counts both halves and forgets the asteroid lost.
DestroyCountingHalvesOnly(a, v1, v2) ==
    LET half_radius == asteroids[a].average_radius \div 2
        killed == ship.asteroids_destroyed + 1
        dead == [asteroids EXCEPT ![a].active = FALSE]
    IN  /\ ship' = [ship EXCEPT !.asteroids_destroyed = killed]
        /\ upgrades' = IF killed % UPGRADE_REQ = 0
                       THEN Append(upgrades, Upgrade(asteroids[a].position))
                       ELSE upgrades
        /\ IF half_radius >= ASTEROID_MIN_RADIUS
           THEN /\ asteroids' = dead \o
                      <<Asteroid(half_radius, asteroids[a].position, v1),
                        Asteroid(half_radius, asteroids[a].position, v2)>>
                /\ asteroid_count' = asteroid_count + 2
                /\ UNCHANGED asteroid_respawn_timer
           ELSE /\ asteroids' = dead
                /\ asteroid_count' = asteroid_count - 1
                /\ asteroid_respawn_timer' =
                      IF asteroid_count - 1 <= 0 THEN RESPAWN_DELAY
                      ELSE asteroid_respawn_timer

\* A destroy_asteroid that drops an upgrade on every kill from the
\* threshold on.
DestroyDroppingFromThreshold(a, v1, v2) ==
    LET half_radius == asteroids[a].average_radius \div 2
        killed == ship.asteroids_destroyed + 1
        dead == [asteroids EXCEPT ![a].active = FALSE]
    IN  /\ ship' = [ship EXCEPT !.asteroids_destroyed = killed]
        /\ upgrades' = IF killed >= UPGRADE_REQ
                       THEN Append(upgrades, Upgrade(asteroids[a].position))
                       ELSE upgrades
        /\ IF half_radius >= ASTEROID_MIN_RADIUS
           THEN /\ asteroids' = dead \o
                      <<Asteroid(half_radius, asteroids[a].position, v1),
                        Asteroid(half_radius, asteroids[a].position, v2)>>
                /\ asteroid_count' = asteroid_count - 1 + 2
                /\ UNCHANGED asteroid_respawn_timer
           ELSE /\ asteroids' = dead
                /\ asteroid_count' = asteroid_count - 1
                /\ asteroid_respawn_timer' =
                      IF asteroid_count - 1 <= 0 THEN RESPAWN_DELAY
                      ELSE asteroid_respawn_timer

\* A destroy_asteroid that starts the kill counter again at the threshold.
DestroyResettingCounter(a, v1, v2) ==
    LET half_radius == asteroids[a].average_radius \div 2
        killed == ship.asteroids_destroyed + 1
        dead == [asteroids EXCEPT ![a].active = FALSE]
    IN  /\ ship' = [ship EXCEPT !.asteroids_destroyed =
                                   IF killed = UPGRADE_REQ THEN 0 ELSE killed]
        /\ upgrades' = IF killed = UPGRADE_REQ
                       THEN Append(upgrades, Upgrade(asteroids[a].position))
                       ELSE upgrades
        /\ IF half_radius >= ASTEROID_MIN_RADIUS
           THEN /\ asteroids' = dead \o
                      <<Asteroid(half_radius, asteroids[a].position, v1),
                        Asteroid(half_radius, asteroids[a].position, v2)>>
                /\ asteroid_count' = asteroid_count - 1 + 2
                /\ UNCHANGED asteroid_respawn_timer
           ELSE /\ asteroids' = dead
                /\ asteroid_count' = asteroid_count - 1
                /\ asteroid_respawn_timer' =
                      IF asteroid_count - 1 <= 0 THEN RESPAWN_DELAY
                      ELSE asteroid_respawn_timer

\* A destroy_asteroid that counts no kill for a ship that is not active.
DestroyUncountedWhenInactive(a, v1, v2) ==
    LET half_radius == asteroids[a].average_radius \div 2
        killed == IF ship.active THEN ship.asteroids_destroyed + 1
                  ELSE ship.asteroids_destroyed
        dead == [asteroids EXCEPT ![a].active = FALSE]
    IN  /\ ship' = [ship EXCEPT !.asteroids_destroyed = killed]
        /\ upgrades' = IF ship.active /\ killed % UPGRADE_REQ = 0
                       THEN Append(upgrades, Upgrade(asteroids[a].position))
                       ELSE upgrades
        /\ IF half_radius >= ASTEROID_MIN_RADIUS
           THEN /\ asteroids' = dead \o
                      <<Asteroid(half_radius, asteroids[a].position, v1),
                        Asteroid(half_radius, asteroids[a].position, v2)>>
                /\ asteroid_count' = asteroid_count - 1 + 2
                /\ UNCHANGED asteroid_respawn_timer
           ELSE /\ asteroids' = dead
                /\ asteroid_count' = asteroid_count - 1
                /\ asteroid_respawn_timer' =
                      IF asteroid_count - 1 <= 0 THEN RESPAWN_DELAY
                      ELSE asteroid_respawn_timer

\* destroy_asteroid (lines 197-211) of asteroid a of the list; v1 and v2 are
\* the velocities of the two halves.  The radii that occur (40, 20, 10)
\* halve without a remainder.
Destroy(a, v1, v2) ==
    LET half_radius == asteroids[a].average_radius \div 2
        killed == ship.asteroids_destroyed + 1
        dead == [asteroids EXCEPT ![a].active = FALSE]
    IN  /\ ship' = [ship EXCEPT !.asteroids_destroyed = killed]
        /\ upgrades' = IF killed % UPGRADE_REQ = 0
                       THEN Append(upgrades, Upgrade(asteroids[a].position))
                       ELSE upgrades
        /\ IF half_radius >= ASTEROID_MIN_RADIUS
           THEN /\ asteroids' = dead \o
                      <<Asteroid(half_radius, asteroids[a].position, v1),
                        Asteroid(half_radius, asteroids[a].position, v2)>>
                /\ asteroid_count' = asteroid_count - 1 + 2
                /\ UNCHANGED asteroid_respawn_timer
           ELSE /\ asteroids' = dead
                /\ asteroid_count' = asteroid_count - 1
                /\ asteroid_respawn_timer' =
                      IF asteroid_count - 1 <= 0 THEN RESPAWN_DELAY
                      ELSE asteroid_respawn_timer

\* Lines 128 and 133: self.destroy_asteroid(a), then the next asteroid.
DestroyAsteroid ==
    /\ pc = "destroy_asteroid"
    /\ \E v1 \in AsteroidVelocities, v2 \in AsteroidVelocities :
          Destroy(idx, v1, v2)
    /\ pc' = "asteroid_loop"
    /\ idx' = idx + 1
    /\ old_ship' = None
    /\ UNCHANGED <<bullets, keys, new_keys, since_damage, wave_tick>>
    /\ UNCHANGED probe

\* The loop over self.asteroids is exhausted.
AsteroidsDone ==
    /\ pc = "asteroid_loop"
    /\ idx > Len(asteroids)
    /\ EndTick
    /\ UNCHANGED <<ship, asteroids, asteroid_count, asteroid_respawn_timer,
                   bullets, upgrades, wave_tick>>

\* A countdown that skips the last tick of the delay.
RespawnCountdownSkipping ==
    /\ pc = "asteroids"
    /\ asteroid_count <= 0
    /\ asteroid_respawn_timer > 0
    /\ asteroid_respawn_timer' =
          IF asteroid_respawn_timer = 1 THEN 0 ELSE asteroid_respawn_timer - 2
    /\ EndTick
    /\ UNCHANGED <<ship, asteroids, asteroid_count, bullets, upgrades,
                   wave_tick>>

\* Lines 135-136
RespawnCountdown ==
    /\ pc = "asteroids"
    /\ asteroid_count <= 0
    /\ asteroid_respawn_timer > 0
    /\ asteroid_respawn_timer' = asteroid_respawn_timer - 1
    /\ EndTick
    /\ UNCHANGED <<ship, asteroids, asteroid_count, bullets, upgrades,
                   wave_tick>>

\* spawn_asteroids (lines 176-184); pts and vs are the random points and
\* velocities drawn.
SpawnWave(pts, vs) ==
    /\ asteroid_count' = WaveSize
    /\ ship' = [ship EXCEPT !.invincibility_timer = VULNERABILITY_DELAY]
    /\ asteroids' = NewWave(pts, vs)
    /\ asteroid_respawn_timer' = 0

\* Lines 137-138
SpawnAsteroids ==
    /\ pc = "asteroids"
    /\ asteroid_count <= 0
    /\ asteroid_respawn_timer <= 0
    /\ \E pts \in [1..WaveSize -> RandomPoints],
          vs \in [1..WaveSize -> AsteroidVelocities] : SpawnWave(pts, vs)
    /\ EndTick
    /\ UNCHANGED <<bullets, upgrades, wave_tick>>

\* game_logic, statement by statement, one call after the other.
Next ==
    \/ ShipPhase
    \/ FirePhase
    \/ BulletStep
    \/ BulletsDone
    \/ UpgradeStep
    \/ UpgradesDone
    \/ AsteroidsBegin
    \/ AsteroidStep
    \/ TakeDamage
    \/ DestroyAsteroid
    \/ AsteroidsDone
    \/ RespawnCountdown
    \/ SpawnAsteroids

Spec == Init /\ [][Next]_vars

(***************************************************************************)
(* The ship on its own: the calls asteroids.py makes on self.ship, each    *)
(* under the condition of its call site, in any order.  What the game      *)
(* decides from its asteroids, bullets and upgrades is left open, so the   *)
(* ship reaches every state some game can bring it to.                     *)
(***************************************************************************)
world == <<asteroids, asteroid_count, asteroid_respawn_timer, bullets,
           upgrades, keys, new_keys, idx, wave_tick>>

\* Lines 74-75
CallGameLogic ==
    /\ pc = "ship"
    /\ \E k \in ShipKeyChoices, c \in RandomColors :
          KeysAllowed(k) /\ ShipTick(k, c)
    /\ UNCHANGED <<world, pc, old_ship>>
    /\ UNCHANGED probe

\* Lines 116-117
CallUpgrade ==
    /\ pc = "ship"
    /\ ship.active
    /\ ship.upgrade_level < MaxLevel
    /\ ship' = ShipUpgrade(ship)
    /\ UNCHANGED <<world, pc, old_ship, since_damage>>
    /\ UNCHANGED probe

\* Lines 126-127
CallTakeDamage ==
    /\ pc = "ship"
    /\ ship.active
    /\ ship.asteroids_destroyed < MaxKills
    /\ ship' = ShipTakeDamage(ship)
    /\ old_ship' = ship
    /\ since_damage' = IF ship'.active THEN since_damage ELSE 0
    /\ pc' = "destroy_asteroid"
    /\ UNCHANGED world
    /\ UNCHANGED probe

\* Line 199, what destroy_asteroid does to the ship.
CountAsteroid ==
    /\ ship' = [ship EXCEPT !.asteroids_destroyed = @ + 1]
    /\ pc' = "ship"
    /\ old_ship' = None
    /\ UNCHANGED <<world, since_damage>>
    /\ UNCHANGED probe

\* Line 128: the asteroid that hit the ship is destroyed.
CallDestroyAfterDamage ==
    /\ pc = "destroy_asteroid"
    /\ CountAsteroid

\* Line 133: an asteroid hit by a bullet is destroyed.
CallDestroyAfterShot ==
    /\ pc = "ship"
    /\ ship.asteroids_destroyed < MaxKills
    /\ CountAsteroid

\* Line 180, what spawn_asteroids does to the ship.
CallSpawnAsteroids ==
    /\ pc = "ship"
    /\ ship' = [ship EXCEPT !.invincibility_timer = VULNERABILITY_DELAY]
    /\ UNCHANGED <<world, pc, old_ship, since_damage>>
    /\ UNCHANGED probe

NextShip ==
    \/ CallGameLogic
    \/ CallUpgrade
    \/ CallTakeDamage
    \/ CallDestroyAfterDamage
    \/ CallDestroyAfterShot
    \/ CallSpawnAsteroids

\* The driver calls game_logic in every frame, and game_logic runs from its
\* first line to its last.
SpecShip ==
    /\ Init
    /\ [][NextShip]_vars
    /\ WF_vars(CallGameLogic)
    /\ WF_vars(CallDestroyAfterDamage)

(***************************************************************************)
(* The fire event on its own (lines 78-106), from every upgrade level and  *)
(* heading of the ship.                                                    *)
(***************************************************************************)
InitFire ==
    /\ \E l \in 0..MaxLevel, r \in Headings, a \in BOOLEAN, sh \in BOOLEAN :
          /\ sh => l >= MAX_UPGRADE_LEVEL
          /\ sh => a
          /\ ship = [ShipInit EXCEPT !.upgrade_level = l, !.rotation = r,
                                     !.active = a, !.shielded = sh,
                                     !.respawn_timer =
                                         IF a THEN 0 ELSE RESPAWN_DELAY]
    /\ \E pts \in [1..WaveSize -> RandomPoints],
          vs \in [1..WaveSize -> AsteroidVelocities] :
          asteroids = NewWave(pts, vs)
    /\ asteroid_count = WaveSize
    /\ asteroid_respawn_timer = 0
    /\ bullets = <<>>
    /\ upgrades = <<>>
    /\ keys \in {{}, {"K_SPACE"}}
    /\ new_keys \in {{}} \cup {{f} : f \in FireKeys}
    /\ pc = "fire"
    /\ idx = 1
    /\ old_ship = None
    /\ since_damage = 0
    /\ wave_tick = 0
    /\ probe = None

NextFire == FirePhase

SpecFire == InitFire /\ [][NextFire]_vars

(***************************************************************************)
(* Properties of the ship (shapes.py), stated over SpecShip                *)
(***************************************************************************)
\* take_damage has just run, on the ship old_ship, and nothing has run since.
Damaged == pc = "destroy_asteroid" /\ old_ship /= None

ShipFields ==
    {"active", "position", "rotation", "dx", "dy", "asteroids_destroyed",
     "upgrade_level", "shielded", "color", "invincibility_timer",
     "respawn_timer"}

\* C1: a take_damage call made while invincibility_timer > 0 changes no field
\* of the ship (active, position, rotation, dx, dy, asteroids_destroyed,
\* upgrade_level, shielded, color, invincibility_timer, respawn_timer),
\* whether or not the ship is shielded.
C1_InvincibleUnharmed ==
    (Damaged /\ old_ship.invincibility_timer > 0) =>
        \A f \in ShipFields : ship[f] = old_ship[f]

\* An unshielded, moving ship with kills and a level to lose is hit while
\* its invincibility timer runs.
C1_Witness ==
    /\ Damaged
    /\ old_ship.invincibility_timer > 0
    /\ ~old_ship.shielded
    /\ old_ship.asteroids_destroyed > 0
    /\ old_ship.upgrade_level > 0
    /\ old_ship.dy /= 0

\* C2: take_damage on an active ship with invincibility_timer = 0 and the
\* shield up drops the shield, resets the colour to SHIP_COLOR and sets
\* invincibility_timer to VULNERABILITY_DELAY; the ship stays active and its
\* position, rotation, velocity, asteroids_destroyed, upgrade_level and
\* respawn_timer are as before.
C2_ShieldConsumed ==
    (/\ Damaged
     /\ old_ship.active
     /\ old_ship.invincibility_timer = 0
     /\ old_ship.shielded) =>
        /\ ~ship.shielded
        /\ ship.color = SHIP_COLOR
        /\ ship.invincibility_timer = VULNERABILITY_DELAY
        /\ ship.active
        /\ \A f \in {"position", "rotation", "dx", "dy", "asteroids_destroyed",
                     "upgrade_level", "respawn_timer"} : ship[f] = old_ship[f]

\* A shielded ship in a random colour, away from the spawn point, is hit
\* after its invincibility has run out.
C2_Witness ==
    /\ Damaged
    /\ old_ship.active
    /\ old_ship.invincibility_timer = 0
    /\ old_ship.shielded
    /\ old_ship.color /= SHIP_COLOR
    /\ old_ship.position /= old_ship.starting_point

\* C3: take_damage on an active ship with invincibility_timer = 0 and no
\* shield makes the ship inactive, puts it on its original spawn point with
\* the initial heading and velocity (0, 0), sets asteroids_destroyed and
\* upgrade_level to 0 and respawn_timer to RESPAWN_DELAY.
C3_FatalDamage ==
    (/\ Damaged
     /\ old_ship.active
     /\ old_ship.invincibility_timer = 0
     /\ ~old_ship.shielded) =>
        /\ ~ship.active
        /\ ship.position = Center
        /\ ship.rotation = SHIP_INITIAL_ROTATION
        /\ ship.dx = 0 /\ ship.dy = 0
        /\ ship.asteroids_destroyed = 0
        /\ ship.upgrade_level = 0
        /\ ship.respawn_timer = RESPAWN_DELAY

\* A turned, drifting ship away from the spawn point, with kills and a
\* level, is hit without shield or invincibility.
C3_Witness ==
    /\ Damaged
    /\ old_ship.active
    /\ old_ship.invincibility_timer = 0
    /\ ~old_ship.shielded
    /\ old_ship.position /= Center
    /\ old_ship.rotation /= SHIP_INITIAL_ROTATION
    /\ old_ship.dy /= 0
    /\ old_ship.asteroids_destroyed > 0
    /\ old_ship.upgrade_level > 0

\* since_damage counts the Ship.game_logic calls an inactive ship has had.
C4_Waiting ==
    ~ship.active =>
        /\ since_damage < RESPAWN_DELAY
        /\ ship.respawn_timer = RESPAWN_DELAY - since_damage

C4_Call ==
    (~ship.active /\ since_damage' = since_damage + 1) =>
        /\ ship'.respawn_timer = ship.respawn_timer - 1
        /\ ship'.active <=> since_damage' = RESPAWN_DELAY
        /\ ship'.active => ship'.invincibility_timer = VULNERABILITY_DELAY

\* C4: after fatal damage the ship stays inactive while respawn_timer falls
\* by one per Ship.game_logic call; the RESPAWN_DELAY-th call after the damage
\* brings respawn_timer to zero and makes the ship active with
\* invincibility_timer = VULNERABILITY_DELAY; if the calls keep coming, an
\* inactive ship is eventually active again.
C4_Respawn ==
    /\ []C4_Waiting
    /\ [][C4_Call]_vars
    /\ (~ship.active ~> ship.active)

\* The ship has just come back, RESPAWN_DELAY calls after the damage.
C4_Witness ==
    /\ ship.active
    /\ since_damage = RESPAWN_DELAY
    /\ ship.respawn_timer = 0
    /\ ship.invincibility_timer = VULNERABILITY_DELAY

\* C5: in every reachable state upgrade_level lies in 0..MAX_UPGRADE_LEVEL.
\* Ship.upgrade compares the level with the maximum where it was to assign
\* it, so a pickup at the maximum raises the level above it.
C5_LevelInRange == ship.upgrade_level \in 0..MAX_UPGRADE_LEVEL

\* C6: an upgrade that brings upgrade_level to MAX_UPGRADE_LEVEL or above
\* leaves the ship shielded, and only a take_damage call made with
\* invincibility_timer = 0 takes a shield away: no tick, no timer and no
\* other call clears it.
C6_ShieldLasts ==
    [][/\ (/\ ship'.upgrade_level > ship.upgrade_level
           /\ ship'.upgrade_level >= MAX_UPGRADE_LEVEL) => ship'.shielded
       /\ (ship.shielded /\ ~ship'.shielded) =>
              /\ pc' = "destroy_asteroid"
              /\ old_ship' = ship
              /\ ship.invincibility_timer = 0]_vars

\* A shielded ship, ticks after the pickup (its colour has changed), has
\* taken a hit during invincibility and keeps its shield.
C6_Witness ==
    /\ Damaged
    /\ old_ship.shielded
    /\ old_ship.invincibility_timer > 0
    /\ old_ship.color /= SHIP_COLOR
    /\ ship.shielded

(***************************************************************************)
(* Properties of the game (asteroids.py), stated over Spec                 *)
(***************************************************************************)
ActiveAsteroids == {j \in DOMAIN asteroids : asteroids[j].active}

\* The step that brings a new wave.
SpawnStep == asteroid_count <= 0 /\ asteroid_count' > 0

\* C7, as claimed: the wave cleared in tick t is replaced in tick
\* t + RESPAWN_DELAY.
C7_SpawnAtDelay == [][SpawnStep => wave_tick = RESPAWN_DELAY]_vars

C7_NoAsteroids ==
    /\ asteroid_count <= 0 =>
          ActiveAsteroids = {} /\ wave_tick <= RESPAWN_DELAY + 1
    /\ (pc = "ship" /\ asteroid_count <= 0) => wave_tick <= RESPAWN_DELAY

C7_Spawn ==
    SpawnStep =>
        /\ wave_tick = RESPAWN_DELAY + 1
        /\ asteroid_count' = WaveSize
        /\ Len(asteroids') = WaveSize
        /\ \A j \in DOMAIN asteroids' :
              /\ asteroids'[j].active
              /\ asteroids'[j].average_radius = ASTEROID_MAX_RADIUS
        /\ ship'.invincibility_timer = VULNERABILITY_DELAY

\* C7: when the last asteroid is destroyed in tick t there is no active
\* asteroid during the RESPAWN_DELAY ticks that follow, and in tick
\* t + RESPAWN_DELAY + 1, not earlier and not later, a wave of the configured
\* count of active asteroids of radius ASTEROID_MAX_RADIUS is spawned and the
\* ship's invincibility_timer is set to VULNERABILITY_DELAY.
C7_SpawnAfterDelay == []C7_NoAsteroids /\ [][C7_Spawn]_vars

\* The tick that spawned the wave has ended.
C7_Witness ==
    /\ pc = "ship"
    /\ wave_tick = RESPAWN_DELAY + 1
    /\ asteroid_count = WaveSize
    /\ ship.invincibility_timer = VULNERABILITY_DELAY

\* C8: destroy_asteroid on an asteroid of average radius R deactivates it,
\* leaves the other asteroids as they are and, when R/2 >= ASTEROID_MIN_RADIUS,
\* appends exactly two active asteroids of average radius R/2 at its
\* position; when R/2 < ASTEROID_MIN_RADIUS it appends none.
C8_Split ==
    [][pc = "destroy_asteroid" =>
        LET a == asteroids[idx]
            n == Len(asteroids)
        IN  /\ ~asteroids'[idx].active
            /\ \A j \in 1..n : j /= idx => asteroids'[j] = asteroids[j]
            /\ IF a.average_radius >= 2 * ASTEROID_MIN_RADIUS
               THEN /\ Len(asteroids') = n + 2
                    /\ \A j \in {n + 1, n + 2} :
                          /\ asteroids'[j].active
                          /\ 2 * asteroids'[j].average_radius = a.average_radius
                          /\ asteroids'[j].position = a.position
               ELSE Len(asteroids') = n]_vars

\* The first asteroid of the wave has just been split, and one of its
\* quarters has been destroyed without a split.
C8_Witness ==
    /\ Len(asteroids) >= 5
    /\ ~asteroids[1].active
    /\ asteroids[1].average_radius = ASTEROID_MAX_RADIUS
    /\ 2 * asteroids[2].average_radius = ASTEROID_MAX_RADIUS
    /\ \E j \in DOMAIN asteroids :
          /\ ~asteroids[j].active
          /\ asteroids[j].average_radius < 2 * ASTEROID_MIN_RADIUS

C9_Count ==
    /\ asteroid_count = Cardinality(ActiveAsteroids)
    /\ asteroid_count >= 0

C9_Destroy ==
    pc = "destroy_asteroid" =>
        /\ asteroids[idx].active
        /\ asteroid_count' =
              IF Len(asteroids') > Len(asteroids)
              THEN asteroid_count + 1 ELSE asteroid_count - 1

\* C9: asteroid_count is the number of active asteroids of the list and is
\* never negative; a destruction that splits raises it by one, one that does
\* not split lowers it by one, and the asteroid destroyed was active (none is
\* counted twice), children appended during the loop included.
C9_CountIsActive == []C9_Count /\ [][C9_Destroy]_vars

\* Splits have raised the count and destructions of quarters have lowered it.
C9_Witness ==
    /\ pc = "ship"
    /\ Len(asteroids) = 7
    /\ asteroid_count = 2

(***************************************************************************)
(* The fan-out of a fire event, stated over SpecFire                       *)
(***************************************************************************)
Offsets == {0, 45, -45, 90, -90, 135, -135, 180}

\* The bullets a fan-out table gives at level l and offset o; forward is its
\* number of forward shots at that level.
FanOut(l, o, forward) ==
    CASE o = 0 -> forward + (IF l >= 1 THEN 2 ELSE 0)
      [] o \in {45, -45} -> IF l > 2 THEN 1 ELSE 0
      [] o \in {90, -90} -> IF l > 3 THEN 1 ELSE 0
      [] o \in {135, -135} -> IF l > 4 THEN 1 ELSE 0
      [] o = 180 -> IF l > 5 THEN 1 ELSE 0

FanTotal(l, forward) ==
    FanOut(l, 0, forward) + 2 * FanOut(l, 45, forward)
    + 2 * FanOut(l, 90, forward) + 2 * FanOut(l, 135, forward)
    + FanOut(l, 180, forward)

\* A fire event of an active ship.
FireEvent == pc = "fire" /\ new_keys \cap FireKeys /= {} /\ ship.active

\* The bullets the step appends with offset o to the ship's heading.
Appended(o) ==
    {j \in DOMAIN bullets' :
        j > Len(bullets) /\ bullets'[j].rotation = ship.rotation + o}

\* C10, as claimed: one forward shot at every level.
C10_ForwardAtEveryLevel ==
    [][FireEvent =>
        /\ Len(bullets') - Len(bullets) = FanTotal(ship.upgrade_level, 1)
        /\ \A o \in Offsets :
              Cardinality(Appended(o)) = FanOut(ship.upgrade_level, o, 1)]_vars

\* The forward shots of the code: none at level 1.
Forward(l) == IF l = 1 THEN 0 ELSE 1

\* C10: one fire event of an active ship at level L appends 1 forward shot
\* unless L = 1; 2 side shots at offset 0, from vertices 3 and 9, when
\* L >= 1; 2 shots at +45 and -45 when L > 2; 2 at +90 and -90 when L > 3;
\* 2 at +135 and -135 when L > 4; 1 at 180 when L > 5.  Level 0 gives 1
\* bullet, level 1 gives 2, level 3 gives 5; the count is between 1 and 10
\* and never decreases as L grows.
C10_FanOut ==
    [][FireEvent =>
        LET l == ship.upgrade_level
            n == Len(bullets') - Len(bullets)
        IN  /\ n = FanTotal(l, Forward(l))
            /\ \A o \in Offsets :
                  Cardinality(Appended(o)) = FanOut(l, o, Forward(l))
            /\ \A j \in Appended(0) :
                  bullets'[j].point \in (IF l >= 1 THEN {3, 9} ELSE {})
                                        \cup (IF l /= 1 THEN {0} ELSE {})
            /\ n \in 1..10
            /\ l = 0 => n = 1
            /\ l = 1 => n = 2
            /\ l = 3 => n = 5
            /\ \A m \in 0..l :
                  FanTotal(m, Forward(m)) <= FanTotal(l, Forward(l))]_vars

\* The ship has fired at level 1.
C10_Witness ==
    /\ pc = "bullets"
    /\ ship.active
    /\ ship.upgrade_level = 1
    /\ Len(bullets) = 2

\* C11: the fire phase of a tick creates bullets if and only if a fire key
\* is among the keys newly pressed in that tick and the ship is active after
\* its own update; a fire key that is only held creates none, and an inactive
\* ship creates none.
C11_FireOnNewKey ==
    [][pc = "fire" =>
        /\ Len(bullets') > Len(bullets)
              <=> (new_keys \cap FireKeys /= {} /\ ship.active)
        /\ SubSeq(bullets', 1, Len(bullets)) = bullets
        /\ ~(new_keys \cap FireKeys /= {} /\ ship.active)
              => bullets' = bullets]_vars

\* The fire phase has run with the fire key held and not newly pressed, on
\* an active ship, and there is no bullet.
C11_Witness ==
    /\ pc = "bullets"
    /\ keys \cap FireKeys /= {}
    /\ new_keys \cap FireKeys = {}
    /\ ship.active
    /\ bullets = <<>>

(***************************************************************************)
(* Upgrades (asteroids.py), stated over Spec                               *)
(***************************************************************************)
\* C12: destroy_asteroid appends exactly one Upgrade, at the destroyed
\* asteroid's position, when it brings the kill counter to a multiple of
\* UPGRADE_REQ (every UPGRADE_REQ-th kill since the counter was zeroed), and
\* none otherwise; no other step adds an upgrade.
C12_UpgradeOnThreshold ==
    [][/\ pc = "destroy_asteroid" =>
             /\ ship'.asteroids_destroyed = ship.asteroids_destroyed + 1
             /\ IF ship'.asteroids_destroyed % UPGRADE_REQ = 0
                THEN /\ Len(upgrades') = Len(upgrades) + 1
                     /\ SubSeq(upgrades', 1, Len(upgrades)) = upgrades
                     /\ upgrades'[Len(upgrades')].position =
                            asteroids[idx].position
                ELSE upgrades' = upgrades
       /\ Len(upgrades') > Len(upgrades) => pc = "destroy_asteroid"]_vars

\* The second upgrade of a life has just been dropped, on the kill that
\* made the counter twice UPGRADE_REQ.
C12_Witness ==
    /\ pc = "asteroid_loop"
    /\ idx > 1
    /\ ship.asteroids_destroyed = 2 * UPGRADE_REQ
    /\ Len(upgrades) = 1
    /\ upgrades[1].position = asteroids[idx - 1].position
    /\ ~asteroids[idx - 1].active

\* C13, as claimed: after every destroy_asteroid call the kill counter is in
\* 0..UPGRADE_REQ-1.
C13_CounterBelowThreshold ==
    [][pc = "destroy_asteroid" =>
          ship'.asteroids_destroyed \in 0..(UPGRADE_REQ - 1)]_vars

\* C13: destroy_asteroid raises the kill counter by one and never resets
\* it, at the upgrade threshold or elsewhere, so the counter passes
\* UPGRADE_REQ; the counter falls only to zero and only in take_damage.
C13_CounterKeepsCounting ==
    [][/\ pc = "destroy_asteroid" =>
             ship'.asteroids_destroyed = ship.asteroids_destroyed + 1
       /\ ship'.asteroids_destroyed < ship.asteroids_destroyed =>
             /\ pc = "take_damage"
             /\ ship'.asteroids_destroyed = 0
             /\ ~ship'.active]_vars

\* The counter has passed the threshold.
C13_Witness ==
    /\ pc = "asteroid_loop"
    /\ ship.asteroids_destroyed = UPGRADE_REQ + 1

\* C14: an upgrade leaves self.upgrades only in the pass of the loop over
\* the upgrades that finds it, with the ship active, and that pass removes
\* that one upgrade and raises upgrade_level by one; no other step (a tick
\* passing, a wave respawn, the ship's death) removes an upgrade, an inactive
\* ship collects none, and the level rises in no other step.
C14_UpgradeCollected ==
    [][/\ upgrades' /= upgrades =>
             \/ /\ pc = "destroy_asteroid"
                /\ Len(upgrades') = Len(upgrades) + 1
                /\ SubSeq(upgrades', 1, Len(upgrades)) = upgrades
             \/ /\ pc = "upgrades"
                /\ ship.active
                /\ idx <= Len(upgrades)
                /\ upgrades' = RemoveAt(upgrades, idx)
                /\ ship'.upgrade_level = ship.upgrade_level + 1
       /\ ship'.upgrade_level > ship.upgrade_level =>
             Len(upgrades') = Len(upgrades) - 1]_vars

\* An upgrade lies on the screen after the ship has died (its kill counter
\* is below the threshold again) and the wave has been replaced.
C14_Witness ==
    /\ pc = "ship"
    /\ Len(upgrades) = 1
    /\ ship.asteroids_destroyed < UPGRADE_REQ
    /\ wave_tick = RESPAWN_DELAY + 1
    /\ asteroid_count = WaveSize

(***************************************************************************)
(* Shape.rotate on its own: one call, and the call that undoes it, from    *)
(* every rotation and argument of two small sets.                          *)
(***************************************************************************)
game == <<world, ship, pc, old_ship, since_damage>>

Rotations == {0, 1, 90, 180, 270, 350, 359}
Degrees == {-720, -370, -360, -350, -10, -1, 0, 1, 10, 350, 360, 370, 720}

InitRotate ==
    /\ GameInit
    /\ probe \in {[step |-> "start", start |-> r, rotation |-> r,
                   degrees |-> d] : r \in Rotations, d \in Degrees}

\* rotate(degrees)
RotateThere ==
    /\ probe.step = "start"
    /\ probe' = [rotate(probe, probe.degrees) EXCEPT !.step = "there"]
    /\ UNCHANGED game

\* rotate(-degrees)
RotateBack ==
    /\ probe.step = "there"
    /\ probe' = [rotate(probe, -probe.degrees) EXCEPT !.step = "back"]
    /\ UNCHANGED game

NextRotate == RotateThere \/ RotateBack

SpecRotate == InitRotate /\ [][NextRotate]_vars

\* C15: from every rotation in [0, 360) and for every argument, rotate
\* leaves the rotation in [0, 360).  rotate wraps once, by 360, so an
\* argument that takes the sum to 720 or beyond, or below -360, leaves the
\* rotation outside the range.
C15_RotationInRange ==
    probe.step = "there" => (0 <= probe.rotation /\ probe.rotation < 360)

\* C16: from every whole rotation r in [0, 360) and for every whole number
\* of degrees d, rotate(d) followed by rotate(-d) leaves the rotation at r.
C16_RotateBack == probe.step = "back" => probe.rotation = probe.start

\* A rotation by two full turns, which leaves the range, has been undone.
C16_Witness ==
    /\ probe.step = "back"
    /\ probe.degrees = 720
    /\ probe.start = 350
    /\ probe.rotation = 350

\* C17: after boundary_check a shape that one move has taken off the screen
\* is on the screen again, 0 <= x < screen_width and 0 <= y < screen_height.
\* Every position of the ship in SpecShip is one boundary_check has left (or
\* the spawn point).  boundary_check puts a shape that left through the top
\* (y < 0) at y = screen_height, one row below the screen, where the other
\* three edges use 0 and screen_width - 1.
C17_OnScreen ==
    /\ 0 <= ship.position[1] /\ ship.position[1] < Width
    /\ 0 <= ship.position[2] /\ ship.position[2] < Height

(***************************************************************************)
(* Shape.intersects on its own, on pairs of polygons and circles with      *)
(* whole coordinates.  A polygon is given by the points its get_points      *)
(* returns, a circle by its centre, its radius and the eight points of its *)
(* get_points; the four diagonal ones lie radius * cos(45) from the centre  *)
(* on each axis, rounded down to the grid.  contains is computed in exact  *)
(* arithmetic.                                                             *)
(***************************************************************************)
PolygonShape(points) == [kind |-> "polygon", points |-> points]

CircleShape(position, radius, diagonal) ==
    LET x == position[1]
        y == position[2]
        q == diagonal
    IN  [kind |-> "circle", position |-> position, radius |-> radius,
         points |-> <<<<x + radius, y>>, <<x + q, y + q>>, <<x, y + radius>>,
                      <<x - q, y + q>>, <<x - radius, y>>, <<x - q, y - q>>,
                      <<x, y - radius>>, <<x + q, y - q>>>>]

get_points(s) == s.points

\* Polygon.contains: the crossing number of the ray from point.  The test on
\* the x coordinates leaves no edge with equal x to divide by.
PolygonContains(s, point) ==
    LET points == get_points(s)
        n == Len(points)
        Crossing(i) ==
            LET a == points[i]
                b == points[(i % n) + 1]
                d == b[1] - a[1]
                l == (point[2] - a[2]) * d
                r == (b[2] - a[2]) * (point[1] - a[1])
            IN  /\ \/ (a[1] < point[1] /\ point[1] <= b[1])
                   \/ (b[1] < point[1] /\ point[1] <= a[1])
                /\ IF d > 0 THEN l > r ELSE l < r
    IN  Cardinality({i \in 1..n : Crossing(i)}) % 2 = 1

\* Circle.contains
CircleContains(s, point) ==
    LET distance_x == s.position[1] - point[1]
        distance_y == s.position[2] - point[2]
    IN  distance_x * distance_x + distance_y * distance_y
            <= s.radius * s.radius

contains(s, point) ==
    IF s.kind = "polygon" THEN PolygonContains(s, point)
    ELSE CircleContains(s, point)

\* An intersects that looks only for points of the shape in the other one.
intersectsOneWay(s, other_shape) ==
    \E j \in DOMAIN get_points(s) : contains(other_shape, get_points(s)[j])

\* Shape.intersects
intersects(s, other_shape) ==
    \/ \E j \in DOMAIN get_points(s) :
           contains(other_shape, get_points(s)[j])
    \/ \E j \in DOMAIN get_points(other_shape) :
           contains(s, get_points(other_shape)[j])

Square(x, y, w) ==
    PolygonShape(<<<<x, y>>, <<x + w, y>>, <<x + w, y + w>>, <<x, y + w>>>>)

TestShapes ==
    {Square(0, 0, 4), Square(3, 3, 4), Square(-10, -10, 30), Square(20, 0, 2),
     PolygonShape(<<<<0, 0>>, <<6, 0>>, <<3, 6>>>>),
     PolygonShape(<<<<-2, 1>>, <<8, 1>>, <<8, 2>>, <<-2, 2>>>>),
     CircleShape(<<0, 0>>, 3, 2), CircleShape(<<5, 0>>, 3, 2),
     CircleShape(<<2, 2>>, 10, 7), CircleShape(<<2, 2>>, 1, 0),
     CircleShape(<<21, 1>>, 3, 2)}

InitIntersects ==
    /\ GameInit
    /\ probe \in {[step |-> "start", a |-> a, b |-> b, ab |-> FALSE,
                   ba |-> FALSE] : a \in TestShapes, b \in TestShapes}

\* a.intersects(b) and b.intersects(a)
Intersect ==
    /\ probe.step = "start"
    /\ probe' = [probe EXCEPT !.step = "done",
                              !.ab = intersects(probe.a, probe.b),
                              !.ba = intersects(probe.b, probe.a)]
    /\ UNCHANGED game

NextIntersects == Intersect

SpecIntersects == InitIntersects /\ [][NextIntersects]_vars

\* C18: for every pair of shapes a and b, polygon or circle,
\* a.intersects(b) and b.intersects(a) return the same boolean.
C18_Symmetric == probe.step = "done" => probe.ab = probe.ba

\* A polygon and a circle inside it intersect, with no point of the polygon
\* in the circle.
C18_Witness ==
    /\ probe.step = "done"
    /\ probe.a.kind = "polygon"
    /\ probe.b.kind = "circle"
    /\ probe.ab
    /\ ~intersectsOneWay(probe.a, probe.b)

(***************************************************************************)
(* Star.twinkle on its own: a star of any initial brightness, twinkling    *)
(* again and again.  calls counts the calls made, up to MaxTwinkles.        *)
(***************************************************************************)
STAR_TWINKLE_SPEED == 20

MaxTwinkles == 30

Brightness == 0..255

\* Star.__init__, the fields twinkle uses
Star(b) == [color |-> <<b, b, b>>, twinkle_rate |-> STAR_TWINKLE_SPEED]

\* A twinkle that turns round at the bright end only.
twinkleCeilingOnly(s) ==
    LET twinkle_rate == IF s.color[1] + s.twinkle_rate > 255
                        THEN s.twinkle_rate * (-1) ELSE s.twinkle_rate
        b == s.color[1] + twinkle_rate
    IN  [s EXCEPT !.twinkle_rate = twinkle_rate, !.color = <<b, b, b>>]

\* Star.twinkle
twinkle(s) ==
    LET twinkle_rate == IF \/ s.color[1] + s.twinkle_rate > 255
                           \/ s.color[1] + s.twinkle_rate < 0
                        THEN s.twinkle_rate * (-1) ELSE s.twinkle_rate
        b == s.color[1] + twinkle_rate
    IN  [s EXCEPT !.twinkle_rate = twinkle_rate, !.color = <<b, b, b>>]

InitStar ==
    /\ GameInit
    /\ probe \in {[star |-> Star(b), calls |-> 0] : b \in Brightness}

Twinkle ==
    /\ probe' = [star |-> twinkle(probe.star),
                 calls |-> IF probe.calls < MaxTwinkles
                           THEN probe.calls + 1 ELSE probe.calls]
    /\ UNCHANGED game

NextStar == Twinkle

SpecStar == InitStar /\ [][NextStar]_vars

\* C19: for every initial brightness in 0..255 and the configured twinkle
\* step, the brightness of a star is in 0..255 after any number of calls of
\* twinkle.
C19_BrightnessInRange ==
    /\ probe.star.color[1] \in Brightness
    /\ probe.star.color = <<probe.star.color[1], probe.star.color[1],
                            probe.star.color[1]>>

\* A star that has turned round at the bright end and at the dark end and
\* is about to turn round again.
C19_Witness ==
    /\ probe.calls = MaxTwinkles
    /\ probe.star.twinkle_rate > 0
    /\ probe.star.color[1] + probe.star.twinkle_rate > 255

(***************************************************************************)
(* The bullet phase of a tick on its own (lines 107-111), entered with up  *)
(* to MaxInFlight bullets in flight, each one, two or three moves from the *)
(* edge of the screen.  probe keeps the list the phase began with.         *)
(***************************************************************************)
MaxInFlight == 3

InFlight ==
    UNION {[1..n -> {Bullet(0, SHIP_INITIAL_ROTATION, r) : r \in 1..3}] :
           n \in 0..MaxInFlight}

InitBullets ==
    /\ ship = [ShipInit EXCEPT !.invincibility_timer = VULNERABILITY_DELAY]
    /\ \E pts \in [1..WaveSize -> RandomPoints],
          vs \in [1..WaveSize -> AsteroidVelocities] :
          asteroids = NewWave(pts, vs)
    /\ asteroid_count = WaveSize
    /\ asteroid_respawn_timer = 0
    /\ bullets \in InFlight
    /\ upgrades = <<>>
    /\ keys = {}
    /\ new_keys = {}
    /\ pc = "bullets"
    /\ idx = 1
    /\ old_ship = None
    /\ since_damage = 0
    /\ wave_tick = 0
    /\ probe = [start |-> bullets]

NextBullets == BulletStep \/ BulletsDone

SpecBullets == InitBullets /\ [][NextBullets]_vars

\* The bullets of list bs, each advanced once, without those that left the
\* screen.
AdvancedOnce(bs) ==
    LET moved == [j \in DOMAIN bs |-> BulletGameLogic(bs[j])]
        OnScreen(b) == ~OffScreen(b)
    IN  SelectSeq(moved, OnScreen)

\* C20: in the bullet phase of a tick every bullet in the collection is
\* advanced exactly once and removed if it is then off the screen; removing
\* one bullet never causes another to be skipped.
C20_EachBulletOnce == pc = "upgrades" => bullets = AdvancedOnce(probe.start)

(***************************************************************************)
(* Polygon.contains on its own, on polygons with vertical edges, repeated  *)
(* vertices and fewer than three points, and on every query point of a     *)
(* grid around them.  Python evaluates `A and B` left to right and leaves  *)
(* B alone when A is false: the slope of edge i is computed only when the  *)
(* test on the x coordinates has succeeded.                                *)
(***************************************************************************)
EdgeEnd(s, i) == get_points(s)[(i % Len(get_points(s))) + 1]

\* A contains that computes the slope of every edge.
SlopeEvaluatedAlways(s, point, i) == i \in DOMAIN get_points(s)

\* Lines 161-162: the left operand of the `and` that guards the division.
SlopeEvaluated(s, point, i) ==
    LET a == get_points(s)[i]
        b == EdgeEnd(s, i)
    IN  \/ (a[1] < point[1] /\ point[1] <= b[1])
        \/ (b[1] < point[1] /\ point[1] <= a[1])

\* Lines 163-164 raise ZeroDivisionError: a slope is computed for an edge
\* whose ends have the same x.
ZeroDivision(s, point) ==
    \E i \in DOMAIN get_points(s) :
        /\ SlopeEvaluated(s, point, i)
        /\ EdgeEnd(s, i)[1] - get_points(s)[i][1] = 0

HasVerticalEdgeAt(s, x) ==
    \E i \in DOMAIN get_points(s) :
        get_points(s)[i][1] = x /\ EdgeEnd(s, i)[1] = x

QueryPolygons ==
    {Square(0, 0, 2), Square(1, 1, 2),
     PolygonShape(<<<<0, 0>>, <<3, 0>>, <<1, 3>>>>),
     PolygonShape(<<<<0, 0>>, <<2, 0>>, <<2, 0>>, <<2, 3>>, <<0, 3>>>>),
     PolygonShape(<<<<1, 0>>, <<1, 3>>>>),
     PolygonShape(<<<<0, 1>>, <<3, 1>>>>),
     PolygonShape(<<<<1, 1>>>>),
     PolygonShape(<<<<0, 0>>, <<0, 3>>, <<0, 1>>>>)}

QueryPoints == (-1..4) \X (-1..4)

InitContains ==
    /\ GameInit
    /\ probe \in {[step |-> "start", shape |-> s, point |-> p,
                   raised |-> FALSE, result |-> FALSE] :
                  s \in QueryPolygons, p \in QueryPoints}

\* shape.contains(point)
Contain ==
    /\ probe.step = "start"
    /\ probe' = [probe EXCEPT
                    !.step = "done",
                    !.raised = ZeroDivision(probe.shape, probe.point),
                    !.result = /\ ~ZeroDivision(probe.shape, probe.point)
                               /\ PolygonContains(probe.shape,
                                                  probe.point)]
    /\ UNCHANGED game

NextContains == Contain

SpecContains == InitContains /\ [][NextContains]_vars

\* C21: Polygon.contains never divides by zero: for every polygon and every
\* query point the slope of an edge is computed only when its two ends have
\* different x, so an edge whose ends share their x is skipped and no error
\* is raised.
C21_NoZeroDivision ==
    /\ probe.step = "done" => ~probe.raised
    /\ \A i \in DOMAIN get_points(probe.shape) :
           SlopeEvaluated(probe.shape, probe.point, i)
               => EdgeEnd(probe.shape, i)[1]
                      /= get_points(probe.shape)[i][1]

\* A point inside a square, level with and at the x of one of its vertical
\* edges, is found inside without an error.
C21_Witness ==
    /\ probe.step = "done"
    /\ HasVerticalEdgeAt(probe.shape, probe.point[1])
    /\ Len(get_points(probe.shape)) = 4
    /\ probe.result
    /\ ~probe.raised

(***************************************************************************)
(* Asteroid._set_random_points on its own, one pass of its loop at a time, *)
(* for every number of points random.randint can return.  A vertex is kept *)
(* as <<angle in degrees, radius>>; the radius is one of the two ends of   *)
(* the range randint draws it from.  360 / points is a division of two     *)
(* ints, which Python 2 rounds down.                                       *)
(***************************************************************************)
ASTEROID_MIN_POINTS == 6

ASTEROID_MAX_POINTS == 12

InitOutline ==
    /\ GameInit
    /\ probe \in {[step |-> "loop", points |-> n, i |-> 0, shape |-> <<>>,
                   average_radius |-> ASTEROID_MAX_RADIUS] :
                  n \in ASTEROID_MIN_POINTS..ASTEROID_MAX_POINTS}

\* Lines 301-306, one pass of `for i in range(0, 360, 360 / points)`.
OutlineStep ==
    /\ probe.step = "loop"
    /\ probe.i < 360
    /\ LET radius_deviation == probe.average_radius \div 4
       IN  \E radius \in {probe.average_radius - radius_deviation,
                          probe.average_radius + radius_deviation} :
               probe' = [probe EXCEPT
                           !.shape = Append(@, <<probe.i, radius>>),
                           !.i = @ + (360 \div probe.points)]
    /\ UNCHANGED game

\* The range is exhausted.
OutlineDone ==
    /\ probe.step = "loop"
    /\ probe.i >= 360
    /\ probe' = [probe EXCEPT !.step = "done"]
    /\ UNCHANGED game

NextOutline == OutlineStep \/ OutlineDone

SpecOutline == InitOutline /\ [][NextOutline]_vars

\* C22: for every number of points N in ASTEROID_MIN_POINTS ..
\* ASTEROID_MAX_POINTS the outline has exactly N vertices, vertex i (from 0)
\* at the angle i * (360 / N) degrees.
C22_OutlineHasNPoints ==
    probe.step = "done" =>
        /\ Len(probe.shape) = probe.points
        /\ \A k \in DOMAIN probe.shape :
               probe.shape[k][1] * probe.points = (k - 1) * 360

(***************************************************************************)
(* The tick of a fatal collision, stated over Spec                         *)
(***************************************************************************)
\* take_damage has just made the ship inactive.
FatallyDamaged == Damaged /\ old_ship.active /\ ~ship.active

\* game_logic has returned from the call in which the ship was lost.
FatalTickOver == pc = "ship" /\ ~ship.active /\ since_damage = 0

\* C23 as stated: at the end of a tick in which an active ship without
\* invincibility or shield collides with an asteroid, asteroids_destroyed is
\* zero and that collision has spawned no Upgrade.
C23_CounterZeroAfterFatalTick ==
    /\ [](FatalTickOver => ship.asteroids_destroyed = 0)
    /\ [][FatallyDamaged => upgrades' = upgrades]_vars

\* C23, amended: take_damage zeroes asteroids_destroyed, and the
\* destroy_asteroid call that follows it counts the asteroid the ship ran
\* into: the counter is 1 after that call and at least 1 at the end of the
\* tick; that collision spawns no Upgrade.
C23_CollisionCounted ==
    /\ [](FatalTickOver => ship.asteroids_destroyed >= 1)
    /\ [][FatallyDamaged => (/\ ship'.asteroids_destroyed = 1
                            /\ upgrades' = upgrades)]_vars

\* The tick of a fatal collision ends with the counter at 1 and asteroids
\* left.
C23_Witness ==
    /\ FatalTickOver
    /\ ship.asteroids_destroyed = 1
    /\ asteroid_count > 0

(***************************************************************************)
(* What the fields of the ship imply about one another, stated over        *)
(* SpecShip                                                                *)
(***************************************************************************)
\* C24: in every reachable state where the ship is not active its
\* respawn_timer is greater than 0, shielded is false, upgrade_level is 0,
\* its velocity is (0, 0) and its position is the spawn point; and in every
\* reachable state where shielded is true, upgrade_level is at least
\* MAX_UPGRADE_LEVEL.
C24_InactiveShipWaits ==
    /\ ~ship.active =>
           /\ ship.respawn_timer > 0
           /\ ~ship.shielded
           /\ ship.upgrade_level = 0
           /\ ship.dx = 0 /\ ship.dy = 0
           /\ ship.position = ship.starting_point
           /\ ship.position = Center
    /\ ship.shielded => ship.upgrade_level >= MAX_UPGRADE_LEVEL

\* A ship that had earned the shield and lost it is hit again, moving and
\* away from the spawn point, and waits for its respawn.
C24_Witness ==
    /\ Damaged
    /\ ~ship.active
    /\ old_ship.upgrade_level >= MAX_UPGRADE_LEVEL
    /\ old_ship.position /= Center
    /\ old_ship.dy /= 0

(***************************************************************************)
(* The collision of the ship with an asteroid in the asteroid phase        *)
(* (asteroids.py lines 121-134), stated over Spec                          *)
(***************************************************************************)
\* The pass of the loop has found the active ship on the active asteroid idx.
Collision == pc = "asteroid_loop" /\ pc' = "take_damage"

\* destroy_asteroid has split asteroid idx in two.
Halved == Len(asteroids') = Len(asteroids) + 2

C25_Step ==
    /\ Collision =>
           /\ ship.active
           /\ asteroids[idx].active
           /\ bullets' = bullets
    /\ pc = "take_damage" =>
           /\ pc' = "destroy_asteroid"
           /\ bullets' = bullets
           /\ ship.invincibility_timer > 0 => ship' = ship
    /\ Damaged =>
           /\ ~asteroids'[idx].active
           /\ ship' = [ship EXCEPT !.asteroids_destroyed = @ + 1]
           /\ bullets' = bullets
           /\ asteroids[idx].average_radius \div 2 >= ASTEROID_MIN_RADIUS
                  => Halved
           /\ Halved =>
                  /\ pc' = "asteroid_loop"
                  /\ idx' < Len(asteroids')
                  /\ asteroids'[Len(asteroids')].active
                  /\ asteroids'[Len(asteroids') - 1].active
    /\ (pc = "asteroid_loop" /\ pc' = "asteroid_loop") => idx' = idx + 1
    /\ (pc = "asteroid_loop" /\ pc' = "ship") => idx > Len(asteroids)

\* C25: whenever an active ship intersects an active asteroid in the asteroid
\* phase, the asteroid is destroyed and the kill counter goes up by one,
\* whether or not the ship is invincible or shielded; no bullet is removed
\* for that asteroid; and the two halves of the split are appended behind the
\* position of the loop, which ends only past the last asteroid of the list,
\* so they are processed in the same tick and an invincible ship destroys an
\* asteroid and its descendants in one tick with no change of its own other
\* than the counter.
C25_CollisionDestroys == [][C25_Step]_vars

\* An invincible ship has run into the asteroid of the wave, its two halves
\* and their four halves in the one tick since the wave was spawned, and is
\* as it was but for the seven kills.
C25_Witness ==
    /\ pc = "asteroid_loop"
    /\ idx > Len(asteroids)
    /\ Len(asteroids) = 7
    /\ asteroid_count = 0
    /\ Len(bullets) = MaxBullets
    /\ ship.active
    /\ ship.asteroids_destroyed = 7
    /\ ship.invincibility_timer = VULNERABILITY_DELAY - 1
    /\ ship.upgrade_level = 0

====
